---------------------------- MODULE Spec2Model ----------------------------
(***************************************************************************)
(* A model of the raycasting engine of src/src/main.rs: the player pose,   *)
(* the update phase (GameState::handle_input) and the render phase        *)
(* (EventHandler::draw: the DDA wall caster, the floor/ceiling batches,    *)
(* Sprite::draw and the z-ordered canvas).                                 *)
(*                                                                         *)
(* f32 values are fixed-point integers: the integer n stands for n / F.    *)
(* Products and quotients round to the nearest representable value, and    *)
(* magnitudes saturate at INF, the format's infinity.  The format has one  *)
(* zero, which stands for +0.0 (the zero that x - x produces).  The frame  *)
(* time read before the first tick of the frame clock is taken to be 0.    *)
(***************************************************************************)
EXTENDS Integers, Sequences, FiniteSets

VARIABLES level, player, delta, frame, keys, pc, column, ray, wall_mask, canvas, spr, floor_batch

vars == <<level, player, delta, frame, keys, pc, column, ray, wall_mask, canvas, spr, floor_batch>>

---------------------------------------------------------------------------
(* Bounds of the model *)

\* Number of frames (ticks of the frame clock) a behaviour runs through.
MaxFrames == 2

---------------------------------------------------------------------------
(* Program constants *)

TEXTURE_SIZE == 64

\* Fixed-point unit: 1.0 is F.  A multiple of TEXTURE_SIZE, so that
\* PIXEL_FRAC = 1 / TEXTURE_SIZE is exact (as it is in f32), and of 100.
F == 25 * TEXTURE_SIZE

\* The format's infinity: magnitudes saturate here.
INF == 2^29

\* The NaN of the format (the result of 0.0 / 0.0), outside [-INF, INF].
NAN == -INF - 1

MOVE_SPEED == (5 * F) \div 2
ROTATION_SPEED == (16 * F) \div 10
X_RESOLUTION == 640 * F
Y_RESOLUTION == 360 * F
FIELD_OF_VIEW == (60 * F) \div 100
PIXEL_FRAC == F \div TEXTURE_SIZE
I32_MIN == -2147483647 - 1

\* The sentinel 99999999.9 of the DDA set-up, saturated to the format's range.
DELTA_SENTINEL == INF

\* The z factor of a wall strip's and of a sprite's depth key.
Z_FACTOR == 100 * F

\* The scale constant of Sprite::draw.
SPRITE_SCALE == 2 * F

---------------------------------------------------------------------------
(* f32 arithmetic *)

Abs(a) == IF a < 0 THEN -a ELSE a
Sgn(a) == IF a < 0 THEN -1 ELSE 1
Max(a, b) == IF a > b THEN a ELSE b
Min(a, b) == IF a < b THEN a ELSE b
Sat(a) == IF a > INF THEN INF ELSE IF a < -INF THEN -INF ELSE a

\* |a| * |b| / F for a >= b >= 0, rounded to nearest, saturating.
MulMag(a, b) ==
    LET q == a \div F
        r == a % F
    IN  IF b = 0 THEN 0
        ELSE IF q > 0 /\ b >= INF \div q THEN INF
        ELSE Min(INF, q * b + (r * b + F \div 2) \div F)

\* a * b
Mul(a, b) == Sgn(a) * Sgn(b) * MulMag(Max(Abs(a), Abs(b)), Min(Abs(a), Abs(b)))

\* |a| * F / |b| for b > 0, rounded to nearest, saturating.
DivMag(a, b) ==
    LET q == a \div b
        r == a % b
    IN  IF q >= INF \div F THEN INF
        ELSE IF r >= INF \div F THEN Min(INF, q * F + r \div (b \div F))
        ELSE Min(INF, q * F + (r * F + b \div 2) \div b)

\* a / b: x / 0.0 is an infinity of x's sign, 0.0 / 0.0 is NaN.
Div(a, b) ==
    IF b = 0 THEN (IF a = 0 THEN NAN ELSE Sgn(a) * INF)
    ELSE Sgn(a) * Sgn(b) * DivMag(Abs(a), Abs(b))

Add(a, b) == Sat(a + b)
Sub(a, b) == Sat(a - b)

\* f32::floor
Floor(a) == (a \div F) * F

\* `as i32` of an f32: truncation toward zero.
AsI32(a) == Sgn(a) * (Abs(a) \div F)

\* `as usize` of an f32: truncation toward zero, negative values saturate to 0.
AsUsize(a) == IF a < 0 THEN 0 ELSE a \div F

\* `as f32` of an integer.
AsF32(n) == n * F

RECURSIVE SqrtIter(_, _)
SqrtIter(n, x) ==
    LET y == (x + n \div x) \div 2
    IN  IF y >= x THEN x ELSE SqrtIter(n, y)

\* Integer square root (f32::sqrt of a squared length given in units of 1/F^2).
ISqrt(n) == IF n = 0 THEN 0 ELSE SqrtIter(n, n)

\* f32::cos and f32::sin at the angles ROTATION_SPEED * delta the model's
\* frame times produce (0.16 and 0.64 rad), to the nearest 1/F.
Cos(angle) ==
    CASE Abs(angle) = 0 -> F
      [] Abs(angle) = (16 * F) \div 100 -> 1580
      [] Abs(angle) = (64 * F) \div 100 -> 1283

Sin(angle) ==
    Sgn(angle) * (CASE Abs(angle) = 0 -> 0
                    [] Abs(angle) = (16 * F) \div 100 -> 255
                    [] Abs(angle) = (64 * F) \div 100 -> 956)

---------------------------------------------------------------------------
(* glam::Vec2 and Mat2 *)

Vec2(x, y) == [x |-> x, y |-> y]
VAdd(u, v) == Vec2(Add(u.x, v.x), Add(u.y, v.y))
VSub(u, v) == Vec2(Sub(u.x, v.x), Sub(u.y, v.y))
VScale(v, s) == Vec2(Mul(v.x, s), Mul(v.y, s))
LengthSquared(v) == v.x * v.x + v.y * v.y
Length(v) == ISqrt(LengthSquared(v))

\* Vec2::normalize: the vector times the reciprocal of its length.
Normalize(v) == VScale(v, Div(F, Length(v)))

\* Vec2::clamp_length
ClampLength(v, min, max) ==
    IF LengthSquared(v) < min * min
    THEN VScale(Vec2(Div(v.x, Length(v)), Div(v.y, Length(v))), min)
    ELSE IF LengthSquared(v) > max * max
    THEN VScale(Vec2(Div(v.x, Length(v)), Div(v.y, Length(v))), max)
    ELSE v

\* Mat2::mul_vec2 of the matrix with columns xa and ya.
MulVec2(xa, ya, v) ==
    Vec2(Add(Mul(xa.x, v.x), Mul(ya.x, v.y)), Add(Mul(xa.y, v.x), Mul(ya.y, v.y)))

---------------------------------------------------------------------------
(* The level: parse_map and the grid *)

None == [some |-> FALSE, index |-> 0]
Some(i) == [some |-> TRUE, index |-> i]

\* usize::MAX, the texture index of an unrecognised map character (any value
\* above the last texture index behaves the same under the clamp of draw).
USIZE_MAX == 2147483647

ParseChar(ch) ==
    CASE ch = "." -> None
      [] ch = "S" -> Some(0)
      [] ch = "B" -> Some(1)
      [] ch = "W" -> Some(2)
      [] OTHER -> Some(USIZE_MAX)

\* parse_map of a text given as its lines, each a sequence of characters.
parse_map(text) ==
    [r \in DOMAIN text |-> [c \in DOMAIN text[r] |-> ParseChar(text[r][c])]]

\* map.txt of the end-to-end scenario: a 10x10 room, '#' border, '.' interior.
RoomText ==
    [r \in 1..10 |-> [c \in 1..10 |->
        IF r \in {1, 10} \/ c \in {1, 10} THEN "#" ELSE "."]]

\* The same room with one border cell missing (row 0, column 4): an open map.
OpenRoomText ==
    [r \in 1..10 |-> [c \in 1..10 |->
        IF (r \in {1, 10} \/ c \in {1, 10}) /\ ~(r = 1 /\ c = 5) THEN "#" ELSE "."]]

\* Decoration::new(ctx, path, position, facing): the position is what the core reads.
Decoration(x, y) == [position |-> Vec2(x, y)]

\* The room with two interior wall cells, at (row 2, column 4) and (row 4, column 3).
PillarRoomText ==
    [r \in 1..10 |-> [c \in 1..10 |->
        IF r \in {1, 10} \/ c \in {1, 10} THEN "#"
        ELSE IF (r = 3 /\ c = 5) \/ (r = 5 /\ c = 4) THEN "B"
        ELSE "."]]

\* Level { map, decorations } as main builds it from map.txt: the room with
\* three decorations, the open room and the room with pillars.
RoomLevel ==
    [map |-> parse_map(RoomText),
     decorations |-> << Decoration(3 * F, (995 * F) \div 1000),
                        Decoration(5 * F, 3 * F),
                        Decoration(3 * F, (9 * F) \div 2) >>]
OpenRoomLevel == [map |-> parse_map(OpenRoomText), decorations |-> << >>]
PillarRoomLevel == [map |-> parse_map(PillarRoomText), decorations |-> << >>]

\* self.level.map[row][col] with usize indices, or with i32 indices cast to
\* usize (a negative i32 wraps to a value beyond any Vec's length): the cell,
\* or a panic when an index is out of range.
MapIndex(map, row, col) ==
    IF row < 0 \/ row >= Len(map) THEN [panic |-> TRUE, cell |-> None]
    ELSE IF col < 0 \/ col >= Len(map[row + 1]) THEN [panic |-> TRUE, cell |-> None]
    ELSE [panic |-> FALSE, cell |-> map[row + 1][col + 1]]

---------------------------------------------------------------------------
(* The player *)

\* GameState::new: the player it builds.
NewPlayer(player_position, direction_vector) ==
    LET direction == Normalize(direction_vector)
    IN  [position |-> player_position,
         direction |-> direction_vector,
         camera |-> ClampLength(Vec2(direction.y, -direction.x), FIELD_OF_VIEW, FIELD_OF_VIEW)]

\* The (player_position, direction_vector) arguments of GameState::new: those
\* of main, a direction that is not of unit length, and a diagonal unit direction.
MainStart == [position |-> Vec2(3 * F, 3 * F), direction |-> Vec2(0, -F)]
LongStart == [position |-> Vec2(3 * F, 3 * F), direction |-> Vec2(0, -2 * F)]
DiagonalStart ==
    [position |-> Vec2((39 * F) \div 10, (31 * F) \div 10),
     direction |-> Vec2((6 * F) \div 10, -((8 * F) \div 10))]

\* The constructions GameState::new(ctx, level, player_position, direction_vector)
\* the model starts from.
Constructions ==
    { [level |-> RoomLevel, start |-> MainStart],
      [level |-> RoomLevel, start |-> LongStart],
      [level |-> OpenRoomLevel, start |-> MainStart],
      [level |-> PillarRoomLevel, start |-> DiagonalStart] }

\* Player::rotate
Rotate(p, angle) ==
    LET xa == Vec2(Cos(angle), Sin(angle))
        ya == Vec2(-Sin(angle), Cos(angle))
    IN  [p EXCEPT !.direction = MulVec2(xa, ya, p.direction),
                  !.camera = MulVec2(xa, ya, p.camera)]

\* One axis of a move attempt of handle_input: the collision lookup at
\* (row, col) and, when the cell is empty, the move by step on that axis.
\* s is [player, panicked]; a panic ends the handler.
MoveAxis(s, map, row, col, axis, step) ==
    IF s.panicked THEN s
    ELSE LET i == MapIndex(map, row, col)
         IN  IF i.panic THEN [s EXCEPT !.panicked = TRUE]
             ELSE IF i.cell.some THEN s
             ELSE IF axis = "x"
                  THEN [s EXCEPT !.player.position.x = Add(@, step)]
                  ELSE [s EXCEPT !.player.position.y = Add(@, step)]

\* MoveAttempt with the y check reading the x the x move has just written.
MoveAttemptSequential(s, p0, map, sign, dt) ==
    LET sx == MoveAxis(s, map, AsUsize(p0.position.y),
                       AsUsize(Add(p0.position.x, sign * p0.direction.x)),
                       "x", sign * Mul(Mul(p0.direction.x, MOVE_SPEED), dt))
    IN  MoveAxis(sx, map, AsUsize(Add(p0.position.y, sign * p0.direction.y)),
                 AsUsize(sx.player.position.x),
                 "y", sign * Mul(Mul(p0.direction.y, MOVE_SPEED), dt))

\* The W (sign = 1) or S (sign = -1) block of handle_input; p0 is the player
\* as read at the top of the handler (player_x, player_y, direction_x, direction_y).
MoveAttempt(s, p0, map, sign, dt) ==
    LET player_x == p0.position.x
        player_y == p0.position.y
        direction_x == p0.direction.x
        direction_y == p0.direction.y
        sx == MoveAxis(s, map, AsUsize(player_y), AsUsize(Add(player_x, sign * direction_x)),
                       "x", sign * Mul(Mul(direction_x, MOVE_SPEED), dt))
    IN  MoveAxis(sx, map, AsUsize(Add(player_y, sign * direction_y)), AsUsize(player_x),
                 "y", sign * Mul(Mul(direction_y, MOVE_SPEED), dt))

Keys == {"W", "S", "A", "D"}

\* GameState::handle_input with the keys ks pressed: [player, panicked].
handle_input(p, map, ks, dt) ==
    LET s0 == [player |-> p, panicked |-> FALSE]
        s1 == IF "W" \in ks THEN MoveAttempt(s0, p, map, 1, dt) ELSE s0
        s2 == IF "S" \in ks THEN MoveAttempt(s1, p, map, -1, dt) ELSE s1
        s3 == IF "A" \in ks /\ ~s2.panicked
              THEN [s2 EXCEPT !.player = Rotate(@, Mul(ROTATION_SPEED, dt))] ELSE s2
        s4 == IF "D" \in ks /\ ~s3.panicked
              THEN [s3 EXCEPT !.player = Rotate(@, Mul(-ROTATION_SPEED, dt))] ELSE s3
    IN  s4

---------------------------------------------------------------------------
(* The frame loop *)

\* The frame times TimeContext::delta may report (0.1 s and 0.4 s).
Deltas == {F \div 10, (4 * F) \div 10}

\* The screen columns and rows the model renders, of the 640 and the 180 of draw.
Columns == <<0, 320, 639>>
Rows == {0, 90, 179}

NoRay == [x |-> 0]

Init ==
    /\ \E c \in Constructions :
         /\ level = c.level
         /\ player = NewPlayer(c.start.position, c.start.direction)
    /\ delta = 0
    /\ frame = 0
    /\ keys = {}
    /\ pc = "update"
    /\ column = 0
    /\ ray = NoRay
    /\ wall_mask = << >>
    /\ canvas = << >>
    /\ spr = 0
    /\ floor_batch = {}

\* EventHandler::update: handle_input with the frame time of the last tick.
Update ==
    /\ pc = "update"
    /\ \E ks \in SUBSET Keys :
         LET s == handle_input(player, level.map, ks, delta)
         IN  /\ keys' = ks
             /\ player' = s.player
             /\ pc' = IF s.panicked THEN "panic_update" ELSE "draw"
    /\ UNCHANGED <<level, delta, frame, column, ray, wall_mask, canvas, spr, floor_batch>>

\* The start of EventHandler::draw: time_context.tick() (a new frame time),
\* a fresh canvas and an empty wall_mask.
DrawBegin ==
    /\ pc = "draw"
    /\ frame < MaxFrames
    /\ frame' = frame + 1
    /\ delta' \in Deltas
    /\ keys' = {}
    /\ canvas' = << >>
    /\ wall_mask' = << >>
    /\ floor_batch' = {}
    /\ column' = 1
    /\ ray' = NoRay
    /\ spr' = 0
    /\ pc' = "column"
    /\ UNCHANGED <<level, player>>

\* The DDA set-up of the wall loop for screen column xi.
SetupRay(p, xi) ==
    LET x == AsF32(xi)
        camera_x == Sub(Div(Mul(2 * F, x), X_RESOLUTION), F)
        ray_direction == VAdd(p.direction, VScale(p.camera, camera_x))
        map_x == AsI32(p.position.x)
        map_y == AsI32(p.position.y)
        delta_x == IF ray_direction.x = 0 THEN DELTA_SENTINEL
                   ELSE Abs(Div(F, ray_direction.x))
        delta_y == IF ray_direction.y = 0 THEN DELTA_SENTINEL
                   ELSE Abs(Div(F, ray_direction.y))
    IN  [x |-> xi,
         ray_direction |-> ray_direction,
         map_x |-> map_x,
         map_y |-> map_y,
         delta_x |-> delta_x,
         delta_y |-> delta_y,
         x_step |-> IF ray_direction.x < 0 THEN -1 ELSE 1,
         x_distance |-> IF ray_direction.x < 0
                        THEN Mul(Sub(p.position.x, AsF32(map_x)), delta_x)
                        ELSE Mul(Sub(Add(AsF32(map_x), F), p.position.x), delta_x),
         y_step |-> IF ray_direction.y < 0 THEN -1 ELSE 1,
         y_distance |-> IF ray_direction.y < 0
                        THEN Mul(Sub(p.position.y, AsF32(map_y)), delta_y)
                        ELSE Mul(Sub(Add(AsF32(map_y), F), p.position.y), delta_y),
         hit |-> FALSE,
         side |-> "EastWest",
         texture_index |-> USIZE_MAX]

\* The head of the wall loop: the next column's set-up, or the loop's end.
ColumnBegin ==
    /\ pc = "column"
    /\ IF column <= Len(Columns)
       THEN /\ ray' = SetupRay(player, Columns[column])
            /\ pc' = "dda"
       ELSE /\ ray' = NoRay
            /\ pc' = "floor"
    /\ UNCHANGED <<level, player, delta, frame, keys, column, wall_mask, canvas, spr, floor_batch>>

\* One iteration of `while !hit`: the step to the next cell.
DdaAdvance(r) ==
    IF r.x_distance < r.y_distance
    THEN [r EXCEPT !.x_distance = Add(@, r.delta_x),
                   !.map_x = @ + r.x_step,
                   !.side = "EastWest"]
    ELSE [r EXCEPT !.y_distance = Add(@, r.delta_y),
                   !.map_y = @ + r.y_step,
                   !.side = "NorthSouth"]

\* One iteration of `while !hit`: the step, then the lookup of the cell stepped into.
DdaStep ==
    /\ pc = "dda"
    /\ ~ray.hit
    /\ LET r == DdaAdvance(ray)
           i == MapIndex(level.map, r.map_y, r.map_x)
       IN  IF i.panic
           THEN /\ ray' = r
                /\ pc' = "panic_draw"
           ELSE /\ ray' = IF i.cell.some
                          THEN [r EXCEPT !.hit = TRUE, !.texture_index = i.cell.index]
                          ELSE r
                /\ pc' = "dda"
    /\ UNCHANGED <<level, player, delta, frame, keys, column, wall_mask, canvas, spr, floor_batch>>

\* perpendicular_distance without the removal of the last increment.
perpendicular_distance_no_backstep(r) ==
    IF r.side = "EastWest" THEN r.x_distance ELSE r.y_distance

\* The distance of the hit: the side-distance of the hit axis less its last increment.
perpendicular_distance(r) ==
    IF r.side = "EastWest" THEN Sub(r.x_distance, r.delta_x) ELSE Sub(r.y_distance, r.delta_y)

\* texture_x of a hit: the wall-local coordinate in texels, mirrored by side and ray sign.
texture_x(p, r) ==
    LET perp == perpendicular_distance(r)
        hit_coord == IF r.side = "EastWest"
                     THEN Add(p.position.y, Mul(perp, r.ray_direction.y))
                     ELSE Add(p.position.x, Mul(perp, r.ray_direction.x))
        wall_x == Sub(hit_coord, Floor(hit_coord))
        tx == Mul(wall_x, AsF32(TEXTURE_SIZE))
    IN  IF (r.side = "EastWest" /\ r.ray_direction.x > 0)
           \/ (r.side = "NorthSouth" /\ r.ray_direction.y < 0)
        THEN Sub(Sub(AsF32(TEXTURE_SIZE), tx), F)
        ELSE tx

\* The number of wall textures GameState::new loads.
WALL_TEXTURES == 4

Clamp(v, lo, hi) == IF v < lo THEN lo ELSE IF v > hi THEN hi ELSE v

\* The draw command of the wall strip of a finished cast.
WallCommand(p, r) ==
    LET perp == perpendicular_distance(r)
        height == Div(Y_RESOLUTION, perp)
        y0 == Sub(Div(Y_RESOLUTION, 2 * F), Div(height, 2 * F))
    IN  [kind |-> "wall",
         x |-> r.x,
         u |-> Mul(texture_x(p, r), PIXEL_FRAC),
         y0 |-> y0,
         height |-> height,
         scale |-> Mul(height, PIXEL_FRAC),
         z |-> AsI32(-Mul(perp, Z_FACTOR)),
         distance |-> perp,
         side |-> r.side,
         texture |-> Clamp(r.texture_index, 0, WALL_TEXTURES - 1)]

\* After the loop: the strip's draw command and its wall_mask entry.
WallStrip ==
    /\ pc = "dda"
    /\ ray.hit
    /\ canvas' = Append(canvas, WallCommand(player, ray))
    /\ wall_mask' = Append(wall_mask, WallCommand(player, ray).y0)
    /\ column' = column + 1
    /\ pc' = "column"
    /\ UNCHANGED <<level, player, delta, frame, keys, ray, spr, floor_batch>>

\* The floor/ceiling loops: the pixels (column index, row) pushed to the two
\* batches, those the column's wall strip does not start above.  (The source
\* rectangles of the pushed instances are not modelled.)
FloorPixels(mask) ==
    {px \in (1..Len(Columns)) \X Rows : ~(mask[px[1]] < AsF32(px[2]))}

FloorCeiling ==
    /\ pc = "floor"
    /\ floor_batch' = FloorPixels(wall_mask)
    /\ spr' = 1
    /\ pc' = "sprites"
    /\ UNCHANGED <<level, player, delta, frame, keys, column, ray, wall_mask, canvas>>

\* Sprite::draw: the projection of a sprite, and whether it is drawn.
SpriteProject(item, p) ==
    LET relative_position == VSub(item.position, p.position)
        det == Sub(Mul(p.camera.x, p.direction.y), Mul(p.camera.y, p.direction.x))
        inv_det == Div(F, det)
        ixa == Vec2(Mul(p.direction.y, inv_det), Mul(p.camera.y, -inv_det))
        iya == Vec2(Mul(p.direction.x, -inv_det), Mul(p.camera.x, inv_det))
        transformed_position == MulVec2(ixa, iya, relative_position)
        ratio == Div(transformed_position.x, transformed_position.y)
        screen_x == IF ratio = NAN THEN NAN ELSE Mul(X_RESOLUTION \div 2, Add(F, ratio))
        scale == Div(SPRITE_SCALE, transformed_position.y)
    IN  [drawn |-> scale > 0,
         command |-> [kind |-> "sprite",
                      screen_x |-> screen_x,
                      scale |-> scale,
                      z |-> AsI32(-Mul(transformed_position.y, Z_FACTOR)),
                      distance |-> transformed_position.y]]

\* Sprite::draw writing the sprite's position into the player it is handed.
SpriteDrawPlayerWrites(p) == [p EXCEPT !.position = Vec2(5 * F, 3 * F)]

\* The player as Sprite::draw leaves it (it takes &Player).
SpriteDrawPlayer(p) == p

\* One iteration of the decorations loop, or its end.
SpriteDraw ==
    /\ pc = "sprites"
    /\ IF spr <= Len(level.decorations)
       THEN LET s == SpriteProject(level.decorations[spr], player)
            IN  /\ canvas' = IF s.drawn THEN Append(canvas, s.command) ELSE canvas
                /\ player' = SpriteDrawPlayer(player)
                /\ spr' = spr + 1
                /\ pc' = "sprites"
       ELSE /\ pc' = "batches"
            /\ UNCHANGED <<canvas, player, spr>>
    /\ UNCHANGED <<level, delta, frame, keys, column, ray, wall_mask, floor_batch>>

\* The end of draw: the floor and ceiling batches, the FPS text, canvas.finish.
DrawEnd ==
    /\ pc = "batches"
    /\ canvas' = canvas \o << [kind |-> "floor", z |-> I32_MIN],
                              [kind |-> "ceiling", z |-> I32_MIN],
                              [kind |-> "text", z |-> 0] >>
    /\ pc' = "update"
    /\ UNCHANGED <<level, player, delta, frame, keys, column, ray, wall_mask, spr, floor_batch>>

Next ==
    \/ Update
    \/ DrawBegin
    \/ ColumnBegin
    \/ DdaStep
    \/ WallStrip
    \/ FloorCeiling
    \/ SpriteDraw
    \/ DrawEnd

Spec == Init /\ [][Next]_vars

---------------------------------------------------------------------------
(* Vocabulary of the claims *)

\* The cell (row, column) is inside the grid and holds a wall / holds no wall.
WallAt(row, c) == ~MapIndex(level.map, row, c).panic /\ MapIndex(level.map, row, c).cell.some
FreeAt(row, c) == ~MapIndex(level.map, row, c).panic /\ ~MapIndex(level.map, row, c).cell.some

\* The cell containing a position: (floor of y, floor of x).
CellRow(pos) == pos.y \div F
CellCol(pos) == pos.x \div F

\* The states in which the canvas holds commands cast from the current pose.
CanvasOfPose == pc \in {"column", "dda", "floor", "sprites", "batches", "update", "panic_draw"}

WallCommands == {i \in DOMAIN canvas : canvas[i].kind = "wall"}
SpriteCommands == {i \in DOMAIN canvas : canvas[i].kind = "sprite"}

\* Command i is composited on top of command j: higher z is drawn later, and
\* equal z in submission order.
OnTop(i, j) == canvas[i].z > canvas[j].z \/ (canvas[i].z = canvas[j].z /\ i > j)

\* The move of one W or S attempt, as the update step from the current state
\* to the next performs it: sign is 1 for W and -1 for S.
StepX(sign) == sign * Mul(Mul(player.direction.x, MOVE_SPEED), delta)
StepY(sign) == sign * Mul(Mul(player.direction.y, MOVE_SPEED), delta)
DestXRow == AsUsize(player.position.y)
DestXCol(sign) == AsUsize(Add(player.position.x, sign * player.direction.x))
DestYRow(sign) == AsUsize(Add(player.position.y, sign * player.direction.y))
DestYCol == AsUsize(player.position.x)

---------------------------------------------------------------------------
(* C1 *)

\* C1: the cell containing the player's position is never a wall cell.
C1_NeverInsideWall == ~WallAt(CellRow(player.position), CellCol(player.position))

---------------------------------------------------------------------------
(* C2 *)

\* The wall-slide of a single move attempt with the given sign.
SlideStep(sign) ==
    /\ (WallAt(DestXRow, DestXCol(sign)) /\ WallAt(DestYRow(sign), DestYCol))
          => player'.position = player.position
    /\ (WallAt(DestXRow, DestXCol(sign)) /\ FreeAt(DestYRow(sign), DestYCol))
          => /\ player'.position.x = player.position.x
             /\ player'.position.y = Add(player.position.y, StepY(sign))
    /\ (FreeAt(DestXRow, DestXCol(sign)) /\ WallAt(DestYRow(sign), DestYCol))
          => /\ player'.position.y = player.position.y
             /\ player'.position.x = Add(player.position.x, StepX(sign))
    /\ (FreeAt(DestXRow, DestXCol(sign)) /\ FreeAt(DestYRow(sign), DestYCol))
          => /\ player'.position.x = Add(player.position.x, StepX(sign))
             /\ player'.position.y = Add(player.position.y, StepY(sign))

\* C2: in an update whose only move key is W (or S), both collision checks
\* read the pre-move position: with both destination cells walls the position
\* is unchanged, with one a wall the position changes on the other axis only,
\* and with neither a wall both axes move.
C2_WallSlide ==
    [][(pc = "update" /\ pc' # "update") =>
          /\ ("W" \in keys' /\ "S" \notin keys') => SlideStep(1)
          /\ ("S" \in keys' /\ "W" \notin keys') => SlideStep(-1)]_vars

\* Where the diagonal start stands after backing up (S) for 0.4 s, both axes free.
BackedUp ==
    Vec2(DiagonalStart.position.x - Mul(Mul(DiagonalStart.direction.x, MOVE_SPEED), (4 * F) \div 10),
         DiagonalStart.position.y - Mul(Mul(DiagonalStart.direction.y, MOVE_SPEED), (4 * F) \div 10))

\* A second S attempt from there has slid: its y destination cell is the
\* pillar at (row 4, column 3) and its x destination cell is free, y is
\* unchanged and x has moved by the step.
C2_Witness ==
    /\ level = PillarRoomLevel
    /\ pc = "draw"
    /\ frame = 2
    /\ keys = {"S"}
    /\ player.direction = DiagonalStart.direction
    /\ WallAt(AsUsize(Add(BackedUp.y, -player.direction.y)), AsUsize(BackedUp.x))
    /\ FreeAt(AsUsize(BackedUp.y), AsUsize(Add(BackedUp.x, -player.direction.x)))
    /\ player.position.y = BackedUp.y
    /\ player.position.x = BackedUp.x - Mul(Mul(player.direction.x, MOVE_SPEED), delta)
    /\ player.position.x # BackedUp.x

---------------------------------------------------------------------------
(* C3 *)

\* C3: no grid lookup crashes: an out-of-range index never ends the program.
C3_FailClosed == pc \notin {"panic_update", "panic_draw"}

---------------------------------------------------------------------------
(* C4 *)

\* How the DDA loop of the current column stands: still running, ended with a
\* hit, or ended any other way.
DdaOutcome ==
    IF pc = "dda" /\ ~ray.hit THEN "running"
    ELSE IF pc = "dda" /\ ray.hit THEN "hit"
    ELSE IF pc = "panic_draw" THEN "crashed"
    ELSE "idle"

\* C4: the DDA loop of a column ends with a hit or with the outcome "no hit",
\* never otherwise.
C4_DdaEndsHitOrNoHit == DdaOutcome \in {"idle", "running", "hit", "no_hit"}

---------------------------------------------------------------------------
(* C5 *)

\* The pose main constructs, in the bordered room, as the canvas shows it.
MainScenario ==
    /\ level = RoomLevel
    /\ CanvasOfPose
    /\ player.position = MainStart.position
    /\ player.direction = MainStart.direction

---------------------------------------------------------------------------
(* C6 *)

Dot(u, v) == Mul(u.x, v.x) + Mul(u.y, v.y)

\* C6: the stored direction has unit length, the camera plane is perpendicular
\* to it and of magnitude FIELD_OF_VIEW (to within 2%, the rounding of the format).
C6_PoseInvariant ==
    /\ Abs(Length(player.direction) - F) <= F \div 50
    /\ Abs(Dot(player.direction, player.camera)) <= F \div 50
    /\ Abs(Length(player.camera) - FIELD_OF_VIEW) <= F \div 50

---------------------------------------------------------------------------
(* C7 *)

\* C7: the texture U coordinate of every wall strip lies in [0, 1).
C7_TextureUInRange == \A i \in WallCommands : 0 <= canvas[i].u /\ canvas[i].u < F

---------------------------------------------------------------------------
(* C8 *)

\* C8: a draw command is emitted for a sprite only when its depth is > 0.
C8_NoSpriteAtDepthZero == \A i \in SpriteCommands : canvas[i].distance > 0

---------------------------------------------------------------------------
(* C9 *)

\* The screen column holding a sprite command's centre.
CentreColumn(i) == canvas[i].screen_x \div F

\* C9: of a wall strip and a sprite covering the same pixel (the sprite's
\* centre, in the strip's column), the strictly farther one is never
\* composited on top of the strictly nearer one.
C9_FartherNeverOnTop ==
    CanvasOfPose =>
        \A w \in WallCommands : \A s \in SpriteCommands :
            (canvas[s].screen_x # NAN /\ CentreColumn(s) = canvas[w].x) =>
                /\ canvas[s].distance > canvas[w].distance => ~OnTop(s, w)
                /\ canvas[w].distance > canvas[s].distance => ~OnTop(w, s)

---------------------------------------------------------------------------
(* C10 *)

\* C10: outside the update phase the player is never changed, and the level
\* (the grid map and the decorations) is never changed at all.
C10_PhaseDiscipline ==
    [][(pc # "update" => player' = player) /\ level' = level]_vars

\* A second frame has been rendered, sprites included, from a pose the update
\* phase has moved and turned.
C10_Witness ==
    /\ pc = "update"
    /\ frame = 2
    /\ SpriteCommands # {}
    /\ player.position # MainStart.position
    /\ player.direction \notin {MainStart.direction, LongStart.direction}

=============================================================================
